---- MODULE Spec2Model ----
(***************************************************************************)
(* Model of brian2/utils/filetools.py: the two scoped resources            *)
(* (in_directory, stdout_redirected) over the process-wide working         *)
(* directory and file-descriptor table, and the directory helpers          *)
(* (ensure_directory, ensure_directory_of_file, copy_directory) over a     *)
(* POSIX file system addressed by path strings.                            *)
(***************************************************************************)
EXTENDS Integers, Sequences, FiniteSets, TLC

VARIABLES cwd, objs, stack, fdtab, out, buf, exc, last, nwrites, fs, ops

procvars == <<cwd, objs, stack, fdtab, out, buf, exc, last, nwrites>>
fsvars == <<fs, ops>>
vars == <<procvars, fsvars>>

----------------------------------------------------------------------------
(* Bounds *)

MaxDepth == 2
MaxObjs == 1
MaxWrites == 2
MaxComps == 3
MaxFiles == 2
MaxOps == 3
MaxCalls == 2

----------------------------------------------------------------------------
(* The file system: path strings as sequences of characters (posixpath)    *)

Sep == "/"
EmptyStr == <<>>

NoErr == "none"

\* the names a directory entry may bear
Names == {"s", "f"}

\* file contents, as bytes
Contents == {<<"x">>, <<"y">>, <<"x", "CR", "LF">>}

Dir == [type |-> "dir", data |-> <<>>]
File(c) == [type |-> "file", data |-> c]

\* the file system holds nothing but the working directory
EmptyFs == <<>>

\* a.rstrip('/')
RECURSIVE RStrip(_)
RStrip(p) == IF p # <<>> /\ p[Len(p)] = Sep THEN RStrip(SubSeq(p, 1, Len(p) - 1)) ELSE p

\* runs of '/' made one
RECURSIVE Squeeze(_)
Squeeze(p) == IF Len(p) < 2 THEN p
              ELSE IF p[1] = Sep /\ p[2] = Sep THEN Squeeze(Tail(p))
              ELSE <<p[1]>> \o Squeeze(Tail(p))

\* os.path.normpath, for paths without '.' and '..' components
NormPath(p) == LET q == Squeeze(p) IN
               IF q = <<>> THEN <<".">>
               ELSE IF q = <<Sep>> THEN q
               ELSE RStrip(q)

\* os.path.join(a, b)
Join(a, b) == IF b # <<>> /\ b[1] = Sep THEN b
              ELSE IF a = <<>> \/ a[Len(a)] = Sep THEN a \o b
              ELSE a \o <<Sep>> \o b

\* index of the last '/' of p, 0 when there is none
LastSep(p) == IF \E i \in DOMAIN p : p[i] = Sep
              THEN CHOOSE i \in DOMAIN p : p[i] = Sep /\ \A j \in DOMAIN p : p[j] = Sep => j <= i
              ELSE 0

\* os.path.dirname(p)
Dirname(p) == LET head == SubSeq(p, 1, LastSep(p)) IN
              IF head # <<>> /\ \E i \in DOMAIN head : head[i] # Sep THEN RStrip(head) ELSE head

\* os.path.basename(p)
Basename(p) == SubSeq(p, LastSep(p) + 1, Len(p))

StartsWith(s, pre) == Len(pre) <= Len(s) /\ SubSeq(s, 1, Len(pre)) = pre

\* what remains of s after its prefix pre
StripPrefix(s, pre) == SubSeq(s, Len(pre) + 1, Len(s))

\* s.replace(old, new): every occurrence of old, leftmost first
RECURSIVE Replace(_, _, _)
Replace(s, old, new) ==
    IF s = <<>> THEN s
    ELSE IF StartsWith(s, old) THEN new \o Replace(StripPrefix(s, old), old, new)
    ELSE <<s[1]>> \o Replace(Tail(s), old, new)

\* relname = fullname.replace(sourcebase, '')
Relname(fullname, sourcebase) == Replace(fullname, sourcebase, EmptyStr)

\* open(name).read() in text mode: universal newlines, '\r\n' and '\r' read as '\n'
RECURSIVE TextRead(_)
TextRead(b) == IF b = <<>> THEN b
               ELSE IF b[1] = "CR" /\ Len(b) >= 2 /\ b[2] = "LF"
                 THEN <<"LF">> \o TextRead(SubSeq(b, 3, Len(b)))
               ELSE IF b[1] = "CR" THEN <<"LF">> \o TextRead(Tail(b))
               ELSE <<b[1]>> \o TextRead(Tail(b))

\* the key a path has in the file system ('' names nothing)
Key(p) == RStrip(Squeeze(p))

\* os.path.exists(p)
Exists(f, p) == p # <<>> /\ Key(p) \in DOMAIN f

IsDir(f, p) == p # <<>> /\ Key(p) \in DOMAIN f /\ f[Key(p)].type = "dir"
IsFile(f, p) == p # <<>> /\ Key(p) \in DOMAIN f /\ f[Key(p)].type = "file"

\* the parent directory of p is there (the working directory always is)
ParentOk(f, p) == Dirname(Key(p)) = <<>> \/ IsDir(f, Dirname(Key(p)))

Put(f, p, node) == [q \in DOMAIN f \cup {Key(p)} |-> IF q = Key(p) THEN node ELSE f[q]]

\* os.mkdir(p)
Mkdir(f, p) == IF p = <<>> THEN [err |-> "FileNotFoundError", fs |-> f]
               ELSE IF Exists(f, p) THEN [err |-> "FileExistsError", fs |-> f]
               ELSE IF ~ParentOk(f, p)
                 THEN [err |-> IF Exists(f, Dirname(Key(p))) THEN "NotADirectoryError"
                               ELSE "FileNotFoundError", fs |-> f]
               ELSE [err |-> NoErr, fs |-> Put(f, p, Dir)]

\* os.makedirs(p): the missing ancestors first, then p itself
RECURSIVE MakeDirs(_, _)
MakeDirs(f, p) ==
    LET head == Dirname(RStrip(p))
        tail == Basename(RStrip(p))
        up == IF head # <<>> /\ tail # <<>> /\ ~Exists(f, head)
                THEN MakeDirs(f, head) ELSE [err |-> NoErr, fs |-> f]
    IN IF up.err \notin {NoErr, "FileExistsError"} THEN up ELSE Mkdir(up.fs, p)

\* ensure_directory(d)
EnsureDirectoryResult(f, d) ==
    LET r == IF ~Exists(f, d) THEN MakeDirs(f, d) ELSE [err |-> NoErr, fs |-> f]
    IN [err |-> r.err, fs |-> r.fs, ret |-> IF r.err = NoErr THEN d ELSE EmptyStr]

\* ensure_directory_of_file(f)
EnsureDirectoryOfFileResult(f, name) ==
    LET d == Dirname(name)
        r == IF ~Exists(f, d) THEN MakeDirs(f, d) ELSE [err |-> NoErr, fs |-> f]
    IN [err |-> r.err, fs |-> r.fs, ret |-> IF r.err = NoErr THEN d ELSE EmptyStr]

\* open(p).read()
ReadFile(f, p) == IF ~Exists(f, p) THEN [err |-> "FileNotFoundError", data |-> <<>>]
                  ELSE IF IsDir(f, p) THEN [err |-> "IsADirectoryError", data |-> <<>>]
                  ELSE [err |-> NoErr, data |-> TextRead(f[Key(p)].data)]

\* open(p, 'w').write(c): on POSIX the text goes out as it is
WriteFile(f, p, c) == IF IsDir(f, p) THEN [err |-> "IsADirectoryError", fs |-> f]
                      ELSE IF ~ParentOk(f, p)
                        THEN [err |-> IF Exists(f, Dirname(Key(p))) THEN "NotADirectoryError"
                                      ELSE "FileNotFoundError", fs |-> f]
                      ELSE [err |-> NoErr, fs |-> Put(f, p, File(c))]

\* the entries of directory `root`, by kind
Entries(f, root, type) ==
    {Basename(q) : q \in {q \in DOMAIN f : Dirname(q) = Key(root) /\ f[q].type = type}}

\* the orders a listing may come in
Perms(S) == {p \in [1..Cardinality(S) -> S] : \A i, j \in 1..Cardinality(S) : i # j => p[i] # p[j]}

\* os.walk(top), top-down: the files of a directory, then its subdirectories one
\* after the other, each listing in whatever order the system gives it; a top
\* that is no directory yields nothing. Each walk is the sequence of
\* os.path.join(root, filename).
RECURSIVE Walks(_, _), WalksOf(_, _, _)
Walks(f, root) ==
    IF ~IsDir(f, root) THEN {<<>>}
    ELSE {[i \in DOMAIN fp |-> Join(root, fp[i])] \o rest :
             fp \in Perms(Entries(f, root, "file")),
             rest \in UNION {WalksOf(f, root, dp) : dp \in Perms(Entries(f, root, "dir"))}}
WalksOf(f, root, dirnames) ==
    IF dirnames = <<>> THEN {<<>>}
    ELSE {a \o b : a \in Walks(f, Join(root, dirnames[1])), b \in WalksOf(f, root, Tail(dirnames))}

\* the body of the loop of copy_directory for one file (lines 62-70)
CopyOne(st, source, target, name) ==
    LET sourcebase == NormPath(source) \o <<Sep>>
        fullname == NormPath(name)
        relname == Relname(fullname, sourcebase)
        st1 == [st EXCEPT !.relnames = Append(@, relname)]
        tgtname == Join(target, relname)
        e == EnsureDirectoryOfFileResult(st.fs, tgtname)
        src == ReadFile(e.fs, fullname)
        old == ReadFile(e.fs, tgtname)
        w == WriteFile(e.fs, tgtname, src.data)
    IN IF e.err # NoErr THEN [st1 EXCEPT !.err = e.err]
       ELSE IF src.err # NoErr THEN [st1 EXCEPT !.err = src.err, !.fs = e.fs]
       ELSE IF Exists(e.fs, tgtname) /\ old.err # NoErr THEN [st1 EXCEPT !.err = old.err, !.fs = e.fs]
       ELSE IF Exists(e.fs, tgtname) /\ old.data = src.data THEN [st1 EXCEPT !.fs = e.fs]
       ELSE IF w.err # NoErr THEN [st1 EXCEPT !.err = w.err, !.fs = e.fs]
       ELSE [st1 EXCEPT !.fs = w.fs, !.writes = Append(@, tgtname)]

\* the loop of copy_directory over a walk; an error ends it where it stands
RECURSIVE CopyLoop(_, _, _, _)
CopyLoop(st, source, target, walk) ==
    IF walk = <<>> \/ st.err # NoErr THEN st
    ELSE CopyLoop(CopyOne(st, source, target, walk[1]), source, target, Tail(walk))

\* copy_directory(source, target), the files met in the order `walk`
CopyDirectoryResult(f, source, target, walk) ==
    CopyLoop([fs |-> f, relnames |-> <<>>, writes |-> <<>>, err |-> NoErr], source, target, walk)

----------------------------------------------------------------------------
(* The process: working directory, descriptor table, stream buffer *)

ExistingDirs == {"A", "B"}
MissingDirs == {"missing"}
AllDirs == ExistingDirs \cup MissingDirs

NoExc == "none"
BlockErrors == {"E1", "E2"}

Closed == "closed"
Dests == {"tty", "F1", "F2", "P"}

\* sys.__stdout__.fileno()
stdout_fd == 1

\* descriptors of the file objects the caller holds open: f1 -> 3, f2 -> 4
FileFds == {3, 4}
MaxFd == 4 + MaxDepth
Fds == 0..MaxFd

InitFdtab == [fd \in Fds |-> CASE fd \in {0, 1, 2} -> "tty"
                               [] fd = 3 -> "F1"
                               [] fd = 4 -> "F2"
                               [] OTHER -> Closed]

OpenFds(tab) == {fd \in Fds : tab[fd] # Closed}

\* os.dup(fd): the lowest free descriptor, on the same open file
DupFd(tab) == CHOOSE n \in Fds \ OpenFds(tab) : \A m \in Fds \ OpenFds(tab) : n <= m

Dup(tab, fd) == [tab EXCEPT ![DupFd(tab)] = tab[fd]]

\* a dup2 that leaves the target slot as it was
Dup2_NoOp(tab, src, dst) == tab

\* os.dup2(src, dst): dst now refers to the open file of src
Dup2(tab, src, dst) == [tab EXCEPT ![dst] = tab[src]]

\* leaving `with os.fdopen(...) as copied` closes the descriptor
CloseFd(tab, fd) == [tab EXCEPT ![fd] = Closed]

\* stdout.flush(): the buffered items reach whatever descriptor 1 refers to
Flush(o, b, tab) == [o EXCEPT ![tab[stdout_fd]] = @ \o b]

\* the values passed as `to`: an open file object (its fileno), a path string,
\* a closed file object
ToArgs == [kind : {"file"}, fd : FileFds \cup {stdout_fd}]
            \cup {[kind |-> "path", fd |-> 0], [kind |-> "closedfile", fd |-> 0]}

\* to.fileno(): a str has no attribute fileno; a closed file raises ValueError
Fileno(to) == CASE to.kind = "file" -> [err |-> NoExc, fd |-> to.fd]
                [] to.kind = "path" -> [err |-> "AttributeError", fd |-> 0]
                [] OTHER -> [err |-> "ValueError", fd |-> 0]

\* open(to, 'wb') in the except branch: only a path can be opened
OpenTo(to) == IF to.kind = "path" THEN [err |-> NoExc, dest |-> "P"]
              ELSE [err |-> "TypeError", dest |-> Closed]

\* lines 84-88: try dup2(to.fileno(), stdout_fd) except ValueError: open(to)
Install(tab, to) ==
    LET fn == Fileno(to) IN
    IF fn.err = NoExc
      THEN [err |-> NoExc, tab |-> Dup2(tab, fn.fd, stdout_fd)]
    ELSE IF fn.err = "ValueError"
      THEN LET op == OpenTo(to) IN
           IF op.err = NoExc
             THEN [err |-> NoExc, tab |-> [tab EXCEPT ![stdout_fd] = op.dest]]
             ELSE [err |-> op.err, tab |-> tab]
    ELSE [err |-> fn.err, tab |-> tab]

\* the statements of the generator in a different order: restore before flush
Program_RestoreFirst == <<"dup", "flush1", "install", "yield", "restore", "flush2", "close">>

\* the statements of stdout_redirected in source order
Program == <<"dup", "flush1", "install", "yield", "flush2", "restore", "close">>

PcOf(step) == CHOOSE i \in DOMAIN Program : Program[i] = step

\* an __exit__ that returns a true value
InDirExitReturn_True == TRUE

\* in_directory.__exit__ has no return statement: it returns None
InDirExitReturn == FALSE

\* the with statement: a true value from __exit__ swallows the error
WithExit(e, ret) == IF ret THEN NoExc ELSE e

\* in_directory.__init__
InDirectoryInit(dir, new_dir) == [orig_dir |-> dir, new_dir |-> new_dir]

NoSelf == [orig_dir |-> "", new_dir |-> ""]
NoTo == [kind |-> "none", fd |-> 0]

NoFrame == [kind |-> "none", pc |-> 0, self |-> NoSelf, to |-> NoTo, copied |-> 0,
            entryCwd |-> "", entryDest |-> "", entryOpen |-> {}, dest |-> "",
            installed |-> FALSE, restored |-> FALSE, inner |-> FALSE, excIn |-> NoExc, steps |-> <<>>,
            depth |-> 0, openAfter |-> {}, excOut |-> NoExc]

Top == stack[Len(stack)]
Pop == SubSeq(stack, 1, Len(stack) - 1)
SetTop(f) == [stack EXCEPT ![Len(stack)] = f]

\* entering a with statement: the new frame goes on top of the enclosing one
Push(f) == IF stack = <<>> THEN <<f>>
           ELSE Append([stack EXCEPT ![Len(stack)].inner = TRUE], f)

\* code of a block (or of the top level) may run
InBlock == IF stack = <<>> THEN TRUE
           ELSE IF Top.kind = "dir" THEN TRUE
           ELSE Program[Top.pc] = "yield"

CanRun == exc = NoExc /\ InBlock

\* the destination the innermost active redirection was asked to install
RECURSIVE InnerDest(_)
InnerDest(s) == IF s = <<>> THEN "tty"
                ELSE IF s[Len(s)].kind = "out" /\ s[Len(s)].installed THEN s[Len(s)].dest
                ELSE InnerDest(SubSeq(s, 1, Len(s) - 1))

\* a written item, labelled with where the code around it means it to go and
\* with the nesting depth it was written at
Item == [to |-> InnerDest(stack), depth |-> Len(stack)]

----------------------------------------------------------------------------
InitProc ==
    /\ cwd \in ExistingDirs
    /\ objs = [v \in 1..MaxObjs |-> NoSelf]
    /\ stack = <<>>
    /\ fdtab = InitFdtab
    /\ out = [d \in Dests |-> <<>>]
    /\ buf = <<>>
    /\ exc = NoExc
    /\ last = NoFrame
    /\ nwrites = 0

Init ==
    /\ InitProc
    /\ fs = EmptyFs
    /\ ops = <<>>

----------------------------------------------------------------------------
(* in_directory *)

\* d = in_directory(new_dir), d one of the caller's variables
Construct(v, new_dir) ==
    /\ CanRun
    /\ objs' = [objs EXCEPT ![v] = InDirectoryInit(cwd, new_dir)]
    /\ last' = NoFrame
    /\ UNCHANGED <<cwd, stack, fdtab, out, buf, exc, nwrites>>

\* with d:  -> d.__enter__()
DirEnter(i) ==
    /\ CanRun
    /\ objs[i] # NoSelf
    /\ Len(stack) < MaxDepth
    /\ IF objs[i].new_dir \in ExistingDirs
         THEN /\ cwd' = objs[i].new_dir
              /\ stack' = Push([NoFrame EXCEPT !.kind = "dir", !.self = objs[i],
                                      !.entryCwd = cwd, !.depth = Len(stack) + 1])
              /\ exc' = exc
         ELSE /\ exc' = "OSError"
              /\ UNCHANGED <<cwd, stack>>
    /\ last' = NoFrame
    /\ UNCHANGED <<objs, fdtab, out, buf, nwrites>>

\* the block ends (normally or with the error in exc) -> d.__exit__(*exc_info)
DirExit ==
    /\ stack # <<>>
    /\ Top.kind = "dir"
    /\ cwd' = Top.self.orig_dir
    /\ exc' = WithExit(exc, InDirExitReturn)
    /\ last' = [Top EXCEPT !.excIn = exc, !.excOut = exc', !.restored = TRUE]
    /\ stack' = Pop
    /\ UNCHANGED <<objs, fdtab, out, buf, nwrites>>

----------------------------------------------------------------------------
(* code of the protected blocks and of the top level *)

BlockChdir(d) ==
    /\ CanRun
    /\ d \in ExistingDirs
    /\ d # cwd
    /\ cwd' = d
    /\ last' = NoFrame
    /\ UNCHANGED <<objs, stack, fdtab, out, buf, exc, nwrites>>

\* os.write(1, ...): straight to the descriptor
BlockOsWrite ==
    /\ CanRun
    /\ nwrites < MaxWrites
    /\ nwrites' = nwrites + 1
    /\ out' = [out EXCEPT ![fdtab[stdout_fd]] = Append(@, Item)]
    /\ last' = NoFrame
    /\ UNCHANGED <<cwd, objs, stack, fdtab, buf, exc>>

\* sys.__stdout__.write(...): into the stream's buffer
BlockPrint ==
    /\ CanRun
    /\ nwrites < MaxWrites
    /\ nwrites' = nwrites + 1
    /\ buf' = Append(buf, Item)
    /\ last' = NoFrame
    /\ UNCHANGED <<cwd, objs, stack, fdtab, out, exc>>

BlockRaise(e) ==
    /\ CanRun
    /\ stack # <<>>
    /\ exc' = e
    /\ last' = NoFrame
    /\ UNCHANGED <<cwd, objs, stack, fdtab, out, buf, nwrites>>

\* a try/except around a with statement (or the top level) takes the error
Catch ==
    /\ exc # NoExc
    /\ InBlock
    /\ exc' = NoExc
    /\ last' = NoFrame
    /\ UNCHANGED <<cwd, objs, stack, fdtab, out, buf, nwrites>>

----------------------------------------------------------------------------
(* stdout_redirected, statement by statement *)

OutTop(step) == IF stack = <<>> THEN FALSE
                ELSE IF Top.kind # "out" THEN FALSE
                ELSE Program[Top.pc] = step

Log(f, s) == [f EXCEPT !.steps = Append(@, s), !.pc = @ + 1]

\* with stdout_redirected(to):  -> the generator starts
SR_Call(to) ==
    /\ CanRun
    /\ Len(stack) < MaxDepth
    /\ stack' = Push([NoFrame EXCEPT !.kind = "out", !.pc = 1, !.to = to,
                                 !.entryDest = fdtab[stdout_fd],
                                 !.entryOpen = OpenFds(fdtab), !.depth = Len(stack) + 1])
    /\ last' = NoFrame
    /\ UNCHANGED <<cwd, objs, fdtab, out, buf, exc, nwrites>>

SR_Dup ==
    /\ OutTop("dup")
    /\ fdtab' = Dup(fdtab, stdout_fd)
    /\ stack' = SetTop([Log(Top, "dup") EXCEPT !.copied = DupFd(fdtab)])
    /\ last' = NoFrame
    /\ UNCHANGED <<cwd, objs, out, buf, exc, nwrites>>

SR_Flush1 ==
    /\ OutTop("flush1")
    /\ out' = Flush(out, buf, fdtab)
    /\ buf' = <<>>
    /\ stack' = SetTop(Log(Top, "flush"))
    /\ last' = NoFrame
    /\ UNCHANGED <<cwd, objs, fdtab, exc, nwrites>>

SR_Install ==
    /\ OutTop("install")
    /\ LET r == Install(fdtab, Top.to) IN
       IF r.err = NoExc
         THEN /\ fdtab' = r.tab
              /\ stack' = SetTop([Log(Top, "redirect") EXCEPT !.installed = TRUE,
                                     !.dest = IF Top.to.kind = "file" THEN fdtab[Top.to.fd] ELSE "P"])
              /\ exc' = exc
         ELSE /\ exc' = r.err
              /\ stack' = SetTop([Log(Top, "redirect") EXCEPT !.pc = PcOf("close")])
              /\ fdtab' = fdtab
    /\ last' = NoFrame
    /\ UNCHANGED <<cwd, objs, out, buf, nwrites>>

\* the block ends (normally or with the error in exc): the finally clause starts
SR_BlockExit ==
    /\ OutTop("yield")
    /\ stack' = SetTop([Log(Top, "block") EXCEPT !.excIn = exc])
    /\ last' = NoFrame
    /\ UNCHANGED <<cwd, objs, fdtab, out, buf, exc, nwrites>>

SR_Flush2 ==
    /\ OutTop("flush2")
    /\ out' = Flush(out, buf, fdtab)
    /\ buf' = <<>>
    /\ stack' = SetTop(Log(Top, "flush"))
    /\ last' = NoFrame
    /\ UNCHANGED <<cwd, objs, fdtab, exc, nwrites>>

SR_Restore ==
    /\ OutTop("restore")
    /\ fdtab' = Dup2(fdtab, Top.copied, stdout_fd)
    /\ stack' = SetTop([Log(Top, "restore") EXCEPT !.restored = TRUE])
    /\ last' = NoFrame
    /\ UNCHANGED <<cwd, objs, out, buf, exc, nwrites>>

\* leaving the with of `copied`; the error, if any, goes on to the caller
SR_Close ==
    /\ OutTop("close")
    /\ fdtab' = CloseFd(fdtab, Top.copied)
    /\ last' = [Log(Top, "close") EXCEPT !.excOut = exc, !.openAfter = OpenFds(fdtab')]
    /\ stack' = Pop
    /\ UNCHANGED <<cwd, objs, out, buf, exc, nwrites>>

----------------------------------------------------------------------------
\* the code of a protected block, apart from what it writes
BlockStep ==
    \/ \E e \in BlockErrors : BlockRaise(e)
    \/ Catch

BlockWrite ==
    \/ BlockOsWrite
    \/ BlockPrint

InDirectory ==
    \/ \E v \in 1..MaxObjs, d \in AllDirs : Construct(v, d)
    \/ \E i \in 1..MaxObjs : DirEnter(i)
    \/ DirExit
    \/ \E d \in ExistingDirs : BlockChdir(d)

StdoutRedirected ==
    \/ \E to \in ToArgs : SR_Call(to)
    \/ SR_Dup
    \/ SR_Flush1
    \/ SR_Install
    \/ SR_BlockExit
    \/ SR_Flush2
    \/ SR_Restore
    \/ SR_Close

\* stdout_redirected alone, with what the blocks write
NextOut == (StdoutRedirected \/ BlockWrite \/ BlockStep) /\ UNCHANGED fsvars

Spec == Init /\ [][NextOut]_vars

\* in_directory alone
NextDir == (InDirectory \/ BlockStep) /\ UNCHANGED fsvars

SpecDir == Init /\ [][NextDir]_vars

\* blocks of both kinds nested in each other
NextNest == (InDirectory \/ StdoutRedirected \/ BlockStep) /\ UNCHANGED fsvars

SpecNest == Init /\ [][NextNest]_vars

----------------------------------------------------------------------------
(* The directory helpers as operations on the file system *)

\* the path whose components are cs
RECURSIVE PathOf(_)
PathOf(cs) == IF Len(cs) = 1 THEN <<cs[1]>>
              ELSE PathOf(SubSeq(cs, 1, Len(cs) - 1)) \o <<Sep, cs[Len(cs)]>>

\* the paths of at most MaxComps components, each a name
Paths(names) == {PathOf(cs) : cs \in UNION {[1..k -> names] : k \in 1..MaxComps}}

\* the directories above p
RECURSIVE Ancestors(_)
Ancestors(p) == IF Dirname(p) = <<>> THEN {} ELSE {Dirname(p)} \cup Ancestors(Dirname(p))

\* the tree that holds the files F with the contents c, and the directories D
Tree(F, c, D) ==
    LET dirs == D \cup UNION {Ancestors(p) : p \in F \cup D}
    IN [q \in F \cup dirs |-> IF q \in F THEN File(c[q]) ELSE Dir]

SourceRoot == <<"s">>
Sources == {<<"s">>, <<"s", Sep>>}
Targets == {<<"t">>}

\* the files a source tree may hold: under the source root, names from Names
SourceFiles == {p \in Paths(Names) : StartsWith(p, SourceRoot \o <<Sep>>)}

\* the source trees: at most MaxFiles files, none of them above another
SourceTrees ==
    UNION {{Tree(F, c, {SourceRoot}) : c \in [F -> Contents]} :
             F \in {F \in SUBSET SourceFiles :
                      /\ Cardinality(F) <= MaxFiles
                      /\ \A p, q \in F : p \notin Ancestors(q)}}

\* the arguments given to ensure_directory and ensure_directory_of_file
EnsureArgs == Paths({"d", "f"})

NoOp == [op |-> "none", a |-> <<>>, b |-> <<>>, walk |-> <<>>, ret |-> <<>>,
         relnames |-> <<>>, err |-> NoErr, writes |-> <<>>, before |-> EmptyFs]

InitFs(trees) ==
    /\ cwd = "A"
    /\ objs = [v \in 1..MaxObjs |-> NoSelf]
    /\ stack = <<>>
    /\ fdtab = InitFdtab
    /\ out = [d \in Dests |-> <<>>]
    /\ buf = <<>>
    /\ exc = NoExc
    /\ last = NoFrame
    /\ nwrites = 0
    /\ fs \in trees
    /\ ops = <<>>

EnsureDirectory(d) ==
    /\ Len(ops) < MaxCalls
    /\ LET r == EnsureDirectoryResult(fs, d) IN
       /\ fs' = r.fs
       /\ ops' = Append(ops, [NoOp EXCEPT !.op = "ensure_directory", !.a = d, !.ret = r.ret,
                                          !.err = r.err, !.before = fs])
    /\ UNCHANGED procvars

EnsureDirectoryOfFile(name) ==
    /\ Len(ops) < MaxCalls
    /\ LET r == EnsureDirectoryOfFileResult(fs, name) IN
       /\ fs' = r.fs
       /\ ops' = Append(ops, [NoOp EXCEPT !.op = "ensure_directory_of_file", !.a = name,
                                          !.ret = r.ret, !.err = r.err, !.before = fs])
    /\ UNCHANGED procvars

CopyDirectory(source, target) ==
    /\ Len(ops) < MaxOps
    /\ \E walk \in Walks(fs, source) :
         LET r == CopyDirectoryResult(fs, source, target, walk) IN
         /\ fs' = r.fs
         /\ ops' = Append(ops, [NoOp EXCEPT !.op = "copy_directory", !.a = source, !.b = target,
                                            !.walk = walk, !.relnames = r.relnames,
                                            !.err = r.err, !.writes = r.writes, !.before = fs])
    /\ UNCHANGED procvars

\* a file under a target is given other contents by hand
Alter(p, c) ==
    /\ Len(ops) < MaxOps
    /\ p \in DOMAIN fs
    /\ fs[p].type = "file"
    /\ \E t \in Targets : StartsWith(p, t \o <<Sep>>)
    /\ fs[p].data # c
    /\ fs' = [fs EXCEPT ![p] = File(c)]
    /\ ops' = Append(ops, [NoOp EXCEPT !.op = "alter", !.a = p, !.before = fs])
    /\ UNCHANGED procvars

InitCopy == InitFs(SourceTrees)

NextCopy ==
    \/ \E source \in Sources, target \in Targets : CopyDirectory(source, target)
    \/ \E p \in DOMAIN fs, c \in Contents : Alter(p, c)

SpecCopy == InitCopy /\ [][NextCopy]_vars

\* a tree of directories
InitEnsure == InitFs({Tree({}, <<>>, D) : D \in {{}} \cup {{d} : d \in EnsureArgs}})

NextEnsure ==
    \/ \E d \in EnsureArgs : EnsureDirectory(d)
    \/ \E name \in EnsureArgs : EnsureDirectoryOfFile(name)

SpecEnsure == InitEnsure /\ [][NextEnsure]_vars

----------------------------------------------------------------------------
(* Properties of the directory helpers *)

Range(q) == {q[i] : i \in DOMAIN q}

\* the file system as call i left it
After(i) == IF i = Len(ops) THEN fs ELSE ops[i + 1].before

\* the files of the tree rooted at `source`, in the file system f
FilesUnder(f, source) ==
    {p \in DOMAIN f : f[p].type = "file" /\ StartsWith(p, NormPath(source) \o <<Sep>>)}

\* the path of p relative to `source`
RelPath(p, source) == StripPrefix(NormPath(p), NormPath(source) \o <<Sep>>)

\* where copy_directory(source, target) is to put the source file p
Counterpart(p, source, target) == Key(Join(target, RelPath(p, source)))

\* C4: a second copy_directory(S, T) right after a successful first one writes
\* no file and returns the same set of relative paths
C4_Idempotent ==
    \A i \in DOMAIN ops :
       (/\ i > 1
        /\ ops[i].op = "copy_directory" /\ ops[i - 1].op = "copy_directory"
        /\ ops[i].a = ops[i - 1].a /\ ops[i].b = ops[i - 1].b
        /\ ops[i - 1].err = NoErr)
          => /\ ops[i].err = NoErr
             /\ ops[i].writes = <<>>
             /\ Range(ops[i].relnames) = Range(ops[i - 1].relnames)

\* C5: copy_directory(S, T) writes the counterpart of a source file exactly when
\* it is absent or differs from the source file, leaves every other path as it
\* was, and changes nothing under S
C5_WritesOnlyChanged ==
    \A i \in DOMAIN ops :
       (ops[i].op = "copy_directory" /\ ops[i].err = NoErr)
          => LET o == ops[i]
                 before == o.before
                 after == After(i)
                 W == {Key(w) : w \in Range(o.writes)}
                 files == FilesUnder(before, o.a)
             IN /\ \A p \in files :
                      LET t == Counterpart(p, o.a, o.b) IN
                      (t \in W) <=> (t \notin DOMAIN before \/ before[t] # before[p])
                /\ W \subseteq {Counterpart(p, o.a, o.b) : p \in files}
                /\ \A q \in DOMAIN before \ W : q \in DOMAIN after /\ after[q] = before[q]
                /\ \A q \in DOMAIN before \cup DOMAIN after :
                      StartsWith(q, NormPath(o.a))
                         => q \in DOMAIN before /\ q \in DOMAIN after /\ after[q] = before[q]

\* C6: copy_directory(source, target) returns, in the order of the walk, the
\* path relative to `source` of every file of the tree, one entry per file, and
\* leaves at `target` joined with that path a file with the source file's content
C6_RelativePaths ==
    \A i \in DOMAIN ops :
       (ops[i].op = "copy_directory" /\ ops[i].err = NoErr)
          => LET o == ops[i]
                 files == FilesUnder(o.before, o.a)
             IN /\ Len(o.relnames) = Cardinality(files)
                /\ Len(o.relnames) = Len(o.walk)
                /\ \A k \in DOMAIN o.relnames : o.relnames[k] = RelPath(o.walk[k], o.a)
                /\ \A p \in files :
                      LET t == Counterpart(p, o.a, o.b) IN
                      /\ IsFile(After(i), t)
                      /\ After(i)[t].data = o.before[p].data

\* C8: ensure_directory(d) raises nothing, returns d and leaves a directory at
\* d, changing nothing when d was there; ensure_directory_of_file(f) does the
\* same for the parent directory of f (the working directory for a bare name)
\* and returns it
C8_EnsureTotal ==
    \A i \in DOMAIN ops :
       LET o == ops[i]
           d == IF o.op = "ensure_directory" THEN o.a ELSE Dirname(o.a)
       IN o.op \in {"ensure_directory", "ensure_directory_of_file"}
             => /\ o.err = NoErr
                /\ o.ret = d
                /\ d # EmptyStr => IsDir(After(i), d)
                /\ (d = EmptyStr \/ Exists(o.before, d)) => After(i) = o.before

----------------------------------------------------------------------------
(* Properties of the scoped resources *)

IsPrefix(a, b) == Len(a) <= Len(b) /\ a = SubSeq(b, 1, Len(a))

Frames == {stack[i] : i \in DOMAIN stack}

\* C1: once a with-block of in_directory has exited, the working directory is
\* the one that was current immediately before the block was entered
C1_RestoresEntryDir ==
    last.kind = "dir" => cwd = last.entryCwd

\* C2: while the block of an installed stdout_redirected(to) runs, descriptor 1
\* refers to `to` and every item written reaches the destination the innermost
\* redirection names, never another one; once the block has exited nothing is
\* left in the buffer and descriptor 1 refers again to what it referred to
\* before entry
C2_Redirected ==
    /\ \A d \in Dests : \A i \in DOMAIN out[d] : out[d][i].to = d
    /\ \A f \in Frames :
          (f.kind = "out" /\ f.installed /\ f = Top /\ Program[f.pc] = "yield")
             => fdtab[stdout_fd] = f.dest
    /\ (last.kind = "out" /\ last.installed)
          => (fdtab[stdout_fd] = last.entryDest /\ buf = <<>>)

\* two redirections to different files have run one after the other, each block
\* wrote, and descriptor 1 is back on the terminal
C2_Witness ==
    /\ stack = <<>>
    /\ last.kind = "out" /\ last.installed /\ last.dest = "F2"
    /\ fdtab[stdout_fd] = "tty"
    /\ \E i \in DOMAIN out["F1"] : out["F1"][i].depth = 1
    /\ \E i \in DOMAIN out["F2"] : out["F2"][i].depth = 1

\* C3: stdout_redirected(to) with `to` a path string opens the file and the
\* block runs with descriptor 1 redirected onto it, no error being raised
C3_PathAccepted ==
    \A f \in Frames :
       (f.kind = "out" /\ f.to.kind = "path" /\ Len(f.steps) >= 3)
          => (f.installed /\ f.dest = "P" /\ exc = NoExc)

\* C7: when the block of in_directory or stdout_redirected raises, the
\* restoration has run by the time control leaves the with statement, and the
\* error that leaves it is the error the block raised
C7_ErrorPropagates ==
    (last.kind \in {"dir", "out"} /\ last.excIn # NoExc)
       => /\ last.restored
          /\ last.kind = "dir" => cwd = last.self.orig_dir
          /\ last.kind = "out" => fdtab[stdout_fd] = last.entryDest
          /\ last.excOut = last.excIn
          /\ exc = last.excIn

\* an in_directory block nested in a stdout_redirected block has just been left
\* by an error its block raised, and the error is on its way to the outer block
C7_Witness ==
    /\ last.kind = "dir" /\ last.excIn \in BlockErrors
    /\ exc = last.excIn
    /\ Len(stack) = 1 /\ stack[1].kind = "out" /\ stack[1].installed

CanonRun == <<"dup", "flush", "redirect", "block", "flush", "restore", "close">>
CanonFail == <<"dup", "flush", "redirect", "close">>

\* C9: the steps of stdout_redirected run in the order dup, flush, redirect,
\* block, flush, restore, close; the held copy stays open on the original
\* destination until then and is closed on every way out, so that the open
\* descriptors after the call are those before it
C9_OrderAndRelease ==
    /\ \A f \in Frames :
          f.kind = "out"
             => /\ IsPrefix(f.steps, CanonRun)
                /\ f.steps # <<>> => fdtab[f.copied] = f.entryDest
    /\ last.kind = "out"
          => /\ last.steps = IF last.installed THEN CanonRun ELSE CanonFail
             /\ fdtab[last.copied] = Closed
             /\ last.openAfter = last.entryOpen

\* a redirection nested in another one has run all its steps, its block having
\* raised, and its held copy is closed
C9_Witness ==
    /\ last.kind = "out" /\ last.installed /\ last.excIn \in BlockErrors
    /\ last.depth = 2
    /\ last.steps = CanonRun
    /\ fdtab[last.copied] = Closed

\* C10: blocks nested in one another restore level by level: when an inner
\* block exits, the working directory (the destination of descriptor 1) is the
\* one its enclosing block had at the inner block's entry, and when the outermost
\* block exits it is the one from before any block was entered
C10_NestedLifo ==
    /\ (last.kind = "dir" /\ last.depth > 1) => cwd = last.entryCwd
    /\ (last.kind = "dir" /\ last.depth = 1 /\ last.inner) => cwd = last.entryCwd
    /\ (last.kind = "out" /\ last.installed /\ last.depth > 1)
          => fdtab[stdout_fd] = last.entryDest
    /\ (last.kind = "out" /\ last.installed /\ last.depth = 1 /\ last.inner)
          => fdtab[stdout_fd] = last.entryDest

====
